---- MODULE Spec2Model ----
(***************************************************************************)
(* geosplot, src/App.tsx: the value-to-color assignment pipeline of the    *)
(* choropleth viewer.  Three specifications:                               *)
(*   SpecTable   the feature table built from parsed rows (lines 68-81)    *)
(*   SpecAssign  assignFeatures on a parsed document (lines 32-60)         *)
(*   Spec        the App component: four pieces of state, two memos        *)
(***************************************************************************)
EXTENDS FiniteSets, Integers, Sequences, TLC

VARIABLES
  geojsonString,  \* App state: the boundary text
  featureData,    \* App state: the tabular text
  colorScale,     \* App state / assignFeatures argument: the scale name
  invertScale,    \* App state / assignFeatures argument: the inversion flag
  features,       \* the feature table (memo of lines 68-81), or NoTable
  gen,            \* first component of the memo of lines 82-93
  geojson,        \* second component of the memo of lines 82-93
  uncaught,       \* an exception left a memo callback
  clock,          \* the value +new Date() returns now
  prevGen,        \* the largest gen of the earlier recomputations, -1 if none
  prevOutcome,    \* how the recomputation before the latest one ended
  pc,             \* position of the function under study
  rows,           \* SpecTable: the rows papaparse returned
  argGeo,         \* SpecAssign: the document as it was passed in
  geo,            \* SpecAssign: the document object, mutated in place
  threw           \* SpecAssign: assignFeatures ended by an exception

vars == <<geojsonString, featureData, colorScale, invertScale, features, gen,
          geojson, uncaught, clock, prevGen, prevOutcome, pc, rows, argGeo, geo,
          threw>>

\* ------------------------------------------------------------------ bounds
MaxRows == 3
MaxFeatures == 2
MaxClock == 2
RampSize == 4

\* --------------------------------------------------------------- JS values
\* Every JavaScript value of the model has the same shape: a type tag t, an
\* integer payload n and a string payload s.
Num(i) == [t |-> "number", n |-> i, s |-> ""]
NaN == [t |-> "number", n |-> 0, s |-> "NaN"]
PosInf == [t |-> "number", n |-> 0, s |-> "Infinity"]
NegInf == [t |-> "number", n |-> 0, s |-> "-Infinity"]
Str(x) == [t |-> "string", n |-> 0, s |-> x]
Undefined == [t |-> "undefined", n |-> 0, s |-> ""]
Fn(x) == [t |-> "function", n |-> 0, s |-> x]
\* a color string: entry i of the ramp called name
Color(name, i) == [t |-> "color", n |-> i, s |-> name]

\* unary plus: table values are numbers, everything else met here is not
ToNumber(x) == IF x.t = "number" THEN x ELSE NaN
IsNaN(x) == ToNumber(x) = NaN
IsFinite(x) == x.t = "number" /\ x.s = ""
\* a < b on numbers that are not NaN
Less(a, b) ==
  IF a = NegInf THEN b # NegInf
  ELSE IF a = PosInf THEN FALSE
  ELSE b = PosInf \/ (IsFinite(b) /\ a.n < b.n)

\* ------------------------------------------------------------ color scales
colorScales ==
  {"viridis", "plasma", "inferno", "magma", "cividis", "blues", "turbo"}

\* d3 interpolator `name` at the parameter num/den (den > 0): the ramp has
\* RampSize entries and clamps the parameter to [0, 1].
Interpolate(name, num, den) ==
  LET i == (num * RampSize) \div den
      c == IF i < 0 THEN 0 ELSE IF i > RampSize - 1 THEN RampSize - 1 ELSE i
  IN Color(name, c)
\* the interpolator applied to NaN
InterpolateNaN(name) == Color(name, -1)

\* scaleSequential(interpolateFun).domain([d0, d1]) applied to x
\*   x == null || isNaN(x = +x) ? unknown
\*     : interpolator(k10 === 0 ? 0.5 : (x - t0) * k10),
\*   k10 = t0 === t1 ? 0 : 1 / (t1 - t0)
scaleSequential(name, d0, d1, x) ==
  LET v == ToNumber(x) IN
  IF x.t = "undefined" \/ IsNaN(v) THEN Undefined
  ELSE IF IsNaN(d0) \/ IsNaN(d1) THEN InterpolateNaN(name)
  ELSE IF d0 = d1 \/ ~IsFinite(d0) \/ ~IsFinite(d1) THEN Interpolate(name, 1, 2)
  ELSE IF ~IsFinite(v)
       THEN \* (+-Infinity - t0) * k10 is +-Infinity, clamped by the ramp
            IF (v = PosInf) = (d1.n > d0.n)
            THEN Interpolate(name, 1, 1) ELSE Interpolate(name, 0, 1)
  ELSE IF d1.n > d0.n THEN Interpolate(name, v.n - d0.n, d1.n - d0.n)
  ELSE Interpolate(name, d0.n - v.n, d0.n - d1.n)

\* ------------------------------------------------------- the feature table
\* A nullable reference: the table is an object (its own keys -> numbers) or
\* null.
EmptyObject == [k \in {} |-> NaN]
NoTable == [isNull |-> TRUE, own |-> EmptyObject]
Table(obj) == [isNull |-> FALSE, own |-> obj]

\* A field of a row is a sequence of characters; a key is used verbatim.
DigitChars == <<"0", "1", "2", "3", "4", "5", "6", "7", "8", "9">>
IsDigit(c) == \E i \in 1..Len(DigitChars) : DigitChars[i] = c
DigitValue(c) == (CHOOSE i \in 1..Len(DigitChars) : DigitChars[i] = c) - 1

\* the value of the longest run of digits of str that starts at position i,
\* acc being the value of the digits before i; -1 when there is no digit
RECURSIVE ParseDigits(_, _, _)
ParseDigits(str, i, acc) ==
  IF i <= Len(str) /\ IsDigit(str[i])
  THEN ParseDigits(str, i + 1, (IF acc < 0 THEN 0 ELSE acc) * 10 + DigitValue(str[i]))
  ELSE acc

RECURSIVE SkipBlanks(_, _)
SkipBlanks(str, i) ==
  IF i <= Len(str) /\ str[i] = " " THEN SkipBlanks(str, i + 1) ELSE i

\* parseFloat(field): leading blanks, an optional sign, then the longest
\* prefix that is a number; NaN when there is none.  A missing field is the
\* value undefined, whose string form starts with no digit.
parseFloat(field) ==
  IF field.t = "undefined" THEN NaN
  ELSE LET str == field.chars
           i == SkipBlanks(str, 1)
           neg == i <= Len(str) /\ str[i] = "-"
           j == IF i <= Len(str) /\ str[i] \in {"-", "+"} THEN i + 1 ELSE i
           d == ParseDigits(str, j, -1)
       IN IF d < 0 THEN NaN ELSE IF neg THEN Num(0 - d) ELSE Num(d)

\* row[i] of a row of papaparse (i counted from 0): a field or undefined
Chars(str) == [t |-> "string", n |-> 0, s |-> "", chars |-> str]
RowField(row, i) == IF i + 1 <= Len(row) THEN Chars(row[i + 1]) ELSE Undefined
RowKey(row) == IF Len(row) >= 1 THEN row[1] ELSE "undefined"

\* the first entry of a key kept instead of the last
RECURSIVE fromEntriesFirst(_)
fromEntriesFirst(entries) ==
  IF Len(entries) = 0 THEN EmptyObject
  ELSE LET before == fromEntriesFirst(SubSeq(entries, 1, Len(entries) - 1))
           e == entries[Len(entries)]
       IN [k \in DOMAIN before \cup {e.key} |->
             IF k \in DOMAIN before THEN before[k] ELSE e.value]
\* Object.fromEntries(entries): a later entry overwrites an earlier one
RECURSIVE fromEntries(_)
fromEntries(entries) ==
  IF Len(entries) = 0 THEN EmptyObject
  ELSE LET before == fromEntries(SubSeq(entries, 1, Len(entries) - 1))
           e == entries[Len(entries)]
       IN [k \in DOMAIN before \cup {e.key} |->
             IF k = e.key THEN e.value ELSE before[k]]

\* rows.map((row) => [row[0], parseFloat(row[1])])
RowEntries(data) ==
  [i \in 1..Len(data) |->
     [key |-> RowKey(data[i]), value |-> parseFloat(RowField(data[i], 1))]]

\* the callback of the features memo; featureData is held as the rows that
\* papaparse splits the text into, the empty text being the one without rows
BuildFeatures(text) ==
  IF text = <<>> THEN NoTable ELSE Table(fromEntries(RowEntries(text)))

\* -------------------------------------------------------- geometry documents
\* A feature of the features array: null, or an object whose properties are
\* null or an object (its own keys -> values).  The geometry is not read.
EmptyProperties == [k \in {} |-> Undefined]
Feature(props) == [isNull |-> FALSE, propsNull |-> FALSE, properties |-> props]
FeatureNoProperties ==
  [isNull |-> FALSE, propsNull |-> TRUE, properties |-> EmptyProperties]
NullFeature ==
  [isNull |-> TRUE, propsNull |-> TRUE, properties |-> EmptyProperties]
GeoJsonObject(type, fs) == [type |-> type, features |-> fs]

isFeatureCollection(g) == g.type = "FeatureCollection"

\* geoFeature.properties?.k
PropertyOf(f, k) ==
  IF f.propsNull \/ k \notin DOMAIN f.properties THEN Undefined
  ELSE f.properties[k]
\* the truth value of x, as || reads it
Truthy(x) ==
  CASE x.t = "undefined" -> FALSE
    [] x.t = "string" -> x.s # ""
    [] x.t = "number" -> x # NaN /\ x # Num(0)
    [] OTHER -> TRUE
\* geoFeature.properties?.name || geoFeature.properties?.code
LookupKey(f) ==
  IF Truthy(PropertyOf(f, "name")) THEN PropertyOf(f, "name")
  ELSE PropertyOf(f, "code")
\* the property key a value is converted to when it indexes an object
PropertyKey(x) == IF x.t = "undefined" THEN "undefined" ELSE x.s
\* obj[k]: an own property, else one inherited from Object.prototype
ObjectPrototype == {"constructor", "toString", "valueOf", "hasOwnProperty"}
Get(obj, k) ==
  IF k \in DOMAIN obj THEN obj[k]
  ELSE IF k \in ObjectPrototype THEN Fn(k)
  ELSE Undefined

\* the filter left out: Object.values(features)
UnfilteredKeys(obj) == DOMAIN obj
\* Object.values(features).filter((v) => !isNaN(v)), as the keys that hold them
FilteredKeys(obj) == {k \in DOMAIN obj : ~IsNaN(obj[k])}
\* a minimum that is NaN when there is no argument
RECURSIVE MinOrNaN(_, _)
MinOrNaN(obj, ks) ==
  IF ks = {} THEN NaN
  ELSE LET k == CHOOSE x \in ks : TRUE
       IN IF ks = {k} THEN obj[k]
          ELSE IF Less(obj[k], MinOrNaN(obj, ks \ {k})) THEN obj[k]
          ELSE MinOrNaN(obj, ks \ {k})
\* Math.min(...vals): +Infinity when there is no argument
RECURSIVE MathMin(_, _)
MathMin(obj, ks) ==
  IF ks = {} THEN PosInf
  ELSE LET k == CHOOSE x \in ks : TRUE
           rest == MathMin(obj, ks \ {k})
       IN IF IsNaN(obj[k]) \/ IsNaN(rest) THEN NaN
          ELSE IF Less(obj[k], rest) THEN obj[k] ELSE rest
\* Math.max(...vals): -Infinity when there is no argument
RECURSIVE MathMax(_, _)
MathMax(obj, ks) ==
  IF ks = {} THEN NegInf
  ELSE LET k == CHOOSE x \in ks : TRUE
           rest == MathMax(obj, ks \ {k})
       IN IF IsNaN(obj[k]) \/ IsNaN(rest) THEN NaN
          ELSE IF Less(rest, obj[k]) THEN obj[k] ELSE rest
DomainMin(obj) == MathMin(obj, FilteredKeys(obj))
DomainMax(obj) == MathMax(obj, FilteredKeys(obj))
\* the inversion flag ignored: [min, max]
ScaleDomainForward(obj, invert) == <<DomainMin(obj), DomainMax(obj)>>
\* the domain handed to scaleSequential: invertScale ? [max, min] : [min, max]
ScaleDomain(obj, invert) ==
  IF invert THEN <<DomainMax(obj), DomainMin(obj)>>
  ELSE <<DomainMin(obj), DomainMax(obj)>>
\* colorScale(value)
ColorOf(obj, name, invert, value) ==
  scaleSequential(name, ScaleDomain(obj, invert)[1], ScaleDomain(obj, invert)[2],
                  value)

\* the spread written last: { value, color, ...geoFeature.properties }
SpreadLast(f, value, color) ==
  LET old == IF f.propsNull THEN EmptyProperties ELSE f.properties IN
  [k \in DOMAIN old \cup {"value", "color"} |->
     IF k \in DOMAIN old THEN old[k]
     ELSE IF k = "value" THEN value ELSE color]
\* { ...geoFeature.properties, value, color }
Spread(f, value, color) ==
  LET old == IF f.propsNull THEN EmptyProperties ELSE f.properties IN
  [k \in DOMAIN old \cup {"value", "color"} |->
     IF k = "value" THEN value ELSE IF k = "color" THEN color ELSE old[k]]

\* one pass of the loop body over a feature that is an object
AssignFeature(f, obj, name, invert) ==
  LET value == Get(obj, PropertyKey(LookupKey(f))) IN
  IF value.t = "undefined" THEN f
  ELSE Feature(Spread(f, value, ColorOf(obj, name, invert, value)))

\* assignFeatures(geo, features, interpolateFun, invertScale): the document
\* afterwards, and whether the call ended by an exception.  Reading
\* .properties of a null feature throws; the features before it are already
\* written.
assignFeatures(g, obj, name, invert) ==
  IF ~isFeatureCollection(g) THEN [threw |-> FALSE, geo |-> g]
  ELSE LET fs == g.features
           bad == {i \in 1..Len(fs) : fs[i].isNull}
           stop == IF bad = {} THEN Len(fs) + 1
                   ELSE CHOOSE i \in bad : \A j \in bad : i <= j
       IN [threw |-> bad # {},
           geo |-> GeoJsonObject(g.type,
                     [i \in 1..Len(fs) |->
                        IF i < stop THEN AssignFeature(fs[i], obj, name, invert)
                        ELSE fs[i]])]

\* ------------------------------------------------------------------ inputs
RECURSIVE SeqsUpTo(_, _)
SeqsUpTo(S, n) ==
  IF n = 0 THEN {<<>>}
  ELSE LET shorter == SeqsUpTo(S, n - 1)
       IN shorter \cup {Append(q, x) : q \in {r \in shorter : Len(r) = n - 1}, x \in S}

Props(name, code) ==
  [k \in {x \in {"name"} : name # "-"} \cup {x \in {"code"} : code # "-"} |->
     IF k = "name" THEN Str(name) ELSE Str(code)]
\* features with and without a name and a code ("-": the property is absent),
\* one that already carries a value property, one named like a method of
\* Object.prototype, one without properties and a null entry
FeatureInputs ==
  {Feature(Props(name, code)) : name \in {"-", "A"}, code \in {"-", "B"}}
    \cup {Feature(Props("", "B")),
          Feature([k \in {"name", "value"} |->
                      IF k = "name" THEN Str("A") ELSE Str("old")]),
          Feature(Props("toString", "-")),
          FeatureNoProperties, NullFeature}
GeoInputs ==
  {GeoJsonObject("FeatureCollection", fs) : fs \in SeqsUpTo(FeatureInputs, MaxFeatures)}
    \cup {GeoJsonObject("Point", <<>>)}

\* tables over the keys A and B, with and without the key "undefined"
TableKeys == {"A", "B"}
TableValues == {Num(1), Num(9), NaN}
TableInputs ==
  LET named == UNION {[ks -> TableValues] : ks \in SUBSET TableKeys}
  IN named \cup
       {[k \in DOMAIN obj \cup {"undefined"} |->
           IF k = "undefined" THEN Num(9) ELSE obj[k]] : obj \in named}

RowKeys == {"A", "B"}
RowFields == {<<"1">>, <<"9">>, <<"1", "2">>, <<"-", "5">>, <<"5", "k">>, <<"x">>}
RowInputs ==
  {<<k>> : k \in RowKeys} \cup {<<k, f>> : k \in RowKeys, f \in RowFields}

\* -------------------------------------------------------------- SpecTable
\* the feature table built from a row sequence
Idle ==
  /\ geojsonString = <<>> /\ featureData = <<>>
  /\ gen = 0 /\ geojson = [isNull |-> TRUE, doc |-> [type |-> "", features |-> <<>>]]
  /\ uncaught = FALSE /\ clock = 1 /\ prevGen = -1 /\ prevOutcome = "none"
appVars ==
  <<geojsonString, featureData, gen, geojson, uncaught, clock, prevGen,
    prevOutcome>>

InitTable ==
  /\ Idle
  /\ colorScale = "viridis" /\ invertScale = FALSE
  /\ pc = "call"
  /\ rows \in SeqsUpTo(RowInputs, MaxRows) \ {<<>>}
  /\ features = NoTable
  /\ argGeo = GeoJsonObject("", <<>>) /\ geo = argGeo /\ threw = FALSE

FeaturesMemo ==
  /\ pc = "call"
  /\ pc' = "done"
  /\ features' = BuildFeatures(rows)
  /\ UNCHANGED <<appVars, colorScale, invertScale, rows, argGeo, geo, threw>>

NextTable == FeaturesMemo
SpecTable == InitTable /\ [][NextTable]_vars

\* -------------------------------------------------------------- SpecAssign
\* assignFeatures applied to a parsed document and a table
InitAssign ==
  /\ Idle
  /\ colorScale \in colorScales /\ invertScale \in BOOLEAN
  /\ pc = "call"
  /\ rows = <<>>
  /\ features \in {Table(obj) : obj \in TableInputs}
  /\ argGeo \in GeoInputs /\ geo = argGeo /\ threw = FALSE

AssignFeatures ==
  /\ pc = "call"
  /\ pc' = "done"
  /\ LET r == assignFeatures(geo, features.own, colorScale, invertScale)
     IN geo' = r.geo /\ threw' = r.threw
  /\ UNCHANGED <<appVars, colorScale, invertScale, rows, argGeo, features>>

NextAssign == AssignFeatures
SpecAssign == InitAssign /\ [][NextAssign]_vars

\* --------------------------------------------------------------------- App
\* The boundary text: empty, or the text of a document, whole ("{", doc, "}")
\* or cut off before its closing brace ("{", doc).
TextOf(doc) == <<"{", doc, "}">>
Truncated(doc) == <<"{", doc>>
\* JSON.parse(text): the document, or a SyntaxError
JSONParse(text) ==
  IF Len(text) = 3 /\ text[3] = "}" THEN [ok |-> TRUE, value |-> text[2]]
  ELSE [ok |-> FALSE, value |-> GeoJsonObject("", <<>>)]

NoGeo == [isNull |-> TRUE, doc |-> GeoJsonObject("", <<>>)]
Geo(doc) == [isNull |-> FALSE, doc |-> doc]

\* the callback without its try/catch
GeoMemoNoCatch(text, feats, name, invert, now) ==
  IF text = <<>> THEN [gen |-> 0, geojson |-> NoGeo, uncaught |-> FALSE]
  ELSE LET p == JSONParse(text)
           r == assignFeatures(p.value, feats.own, name, invert)
       IN IF ~p.ok THEN [gen |-> gen, geojson |-> geojson, uncaught |-> TRUE]
          ELSE IF feats.isNull
               THEN [gen |-> now, geojson |-> Geo(p.value), uncaught |-> FALSE]
          ELSE IF r.threw THEN [gen |-> gen, geojson |-> geojson, uncaught |-> TRUE]
          ELSE [gen |-> now, geojson |-> Geo(r.geo), uncaught |-> FALSE]
\* the callback of the [gen, geojson] memo, run at time now
GeoMemo(text, feats, name, invert, now) ==
  IF text = <<>> THEN [gen |-> 0, geojson |-> NoGeo, uncaught |-> FALSE]
  ELSE LET p == JSONParse(text)
           r == assignFeatures(p.value, feats.own, name, invert)
       IN IF ~p.ok THEN [gen |-> 0, geojson |-> NoGeo, uncaught |-> FALSE]
          ELSE IF feats.isNull
               THEN [gen |-> now, geojson |-> Geo(p.value), uncaught |-> FALSE]
          ELSE IF r.threw THEN [gen |-> 0, geojson |-> NoGeo, uncaught |-> FALSE]
          ELSE [gen |-> now, geojson |-> Geo(r.geo), uncaught |-> FALSE]

\* the features memo, dependencies [featureData]
FeaturesAfter(data) == IF data # featureData THEN BuildFeatures(data) ELSE features
\* the table is another object than the one of the last render
FeaturesChanged(data) ==
  data # featureData /\ ~(features.isNull /\ BuildFeatures(data).isNull)
\* the dependency list without invertScale
GeoDepsChangedNoInvert(text, data, name, invert) ==
  \/ text # geojsonString
  \/ FeaturesChanged(data)
  \/ name # colorScale
\* some dependency of the [gen, geojson] memo differs from the last render:
\* [geojsonString, features, colorScale, invertScale]
GeoDepsChanged(text, data, name, invert) ==
  \/ text # geojsonString
  \/ FeaturesChanged(data)
  \/ name # colorScale
  \/ invert # invertScale

\* how a recomputation ended: no text, a text that does not parse, an
\* exception of the enrichment, a document as parsed, or a document to which
\* assignFeatures has written
Outcome(text, result) ==
  IF text = <<>> THEN "empty"
  ELSE IF result.isNull
       THEN IF JSONParse(text).ok THEN "threw" ELSE "malformed"
  ELSE IF result.doc = JSONParse(text).value THEN "plain"
  ELSE "enriched"

\* the render that follows a state setter
Render(text, data, name, invert) ==
  /\ ~uncaught
  /\ geojsonString' = text /\ featureData' = data
  /\ colorScale' = name /\ invertScale' = invert
  /\ features' = FeaturesAfter(data)
  /\ IF GeoDepsChanged(text, data, name, invert)
     THEN LET m == GeoMemo(text, FeaturesAfter(data), name, invert, clock)
          IN /\ gen' = m.gen /\ geojson' = m.geojson /\ uncaught' = m.uncaught
             /\ prevGen' = IF gen > prevGen THEN gen ELSE prevGen
             /\ prevOutcome' = Outcome(geojsonString, geojson)
     ELSE UNCHANGED <<gen, geojson, uncaught, prevGen, prevOutcome>>
  /\ UNCHANGED <<clock, pc, rows, argGeo, geo, threw>>

AppFeature(name) == Feature(Props(name, "-"))
AppGeoInputs ==
  {GeoJsonObject("Point", <<>>),
   GeoJsonObject("FeatureCollection", <<AppFeature("A")>>),
   GeoJsonObject("FeatureCollection", <<AppFeature("A"), AppFeature("-")>>),
   GeoJsonObject("FeatureCollection", <<AppFeature("A"), NullFeature>>),
   GeoJsonObject("FeatureCollection", <<Feature(Props("", "B"))>>)}
TextInputs ==
  {<<>>} \cup {TextOf(d) : d \in AppGeoInputs} \cup {Truncated(d) : d \in AppGeoInputs}
DataInputs ==
  {<<>>,
   <<<<"A", <<"1">>>>>>,
   <<<<"A", <<"1">>>>, <<"B", <<"9">>>>>>,
   <<<<"A", <<"x">>>>>>,
   <<<<"undefined", <<"9">>>>>>}

Init ==
  /\ geojsonString = <<>> /\ featureData = <<>>
  /\ colorScale = "viridis" /\ invertScale = FALSE
  /\ features = NoTable
  /\ gen = 0 /\ geojson = NoGeo /\ uncaught = FALSE
  /\ clock = 1 /\ prevGen = -1 /\ prevOutcome = "none"
  /\ pc = "app" /\ rows = <<>>
  /\ argGeo = GeoJsonObject("", <<>>) /\ geo = argGeo /\ threw = FALSE

setGeojsonString ==
  \E text \in TextInputs :
    text # geojsonString /\ Render(text, featureData, colorScale, invertScale)
setFeatureData ==
  \E data \in DataInputs :
    data # featureData /\ Render(geojsonString, data, colorScale, invertScale)
setColorScale ==
  \E name \in colorScales :
    name # colorScale /\ Render(geojsonString, featureData, name, invertScale)
setInvertScale ==
  \E checked \in BOOLEAN :
    checked # invertScale /\ Render(geojsonString, featureData, colorScale, checked)
\* a millisecond passes
Tick ==
  /\ clock < MaxClock
  /\ clock' = clock + 1
  /\ UNCHANGED <<geojsonString, featureData, colorScale, invertScale, features,
                 gen, geojson, uncaught, prevGen, prevOutcome, pc, rows, argGeo,
                 geo, threw>>

Next ==
  \/ setGeojsonString
  \/ setFeatureData
  \/ setColorScale
  \/ setInvertScale
  \/ Tick
Spec == Init /\ [][Next]_vars

\* ------------------------------------------------------ claims: SpecTable
\* the last row of data that carries the key k
LastRowWith(data, k) ==
  data[CHOOSE i \in 1..Len(data) :
         /\ RowKey(data[i]) = k
         /\ \A j \in 1..Len(data) : RowKey(data[j]) = k => j <= i]
\* the number a field of RowFields denotes, written out by hand
Denotes(row) ==
  IF Len(row) < 2 THEN NaN
  ELSE CASE row[2] = <<"1">> -> Num(1)
         [] row[2] = <<"9">> -> Num(9)
         [] row[2] = <<"1", "2">> -> Num(12)
         [] row[2] = <<"-", "5">> -> Num(-5)
         [] row[2] = <<"5", "k">> -> Num(5)
         [] OTHER -> NaN

\* C7: the table built from a row sequence has exactly the field-0 values of
\* the rows as its keys, and each key maps to the number parsed from field 1
\* of the last row with that key (NaN when field 1 is missing or is no
\* number); rows with pairwise distinct keys give as many entries as rows.
C7_TableOfRows ==
  pc = "done" =>
    /\ ~features.isNull
    /\ DOMAIN features.own = {RowKey(rows[i]) : i \in 1..Len(rows)}
    /\ \A k \in DOMAIN features.own :
         features.own[k] = Denotes(LastRowWith(rows, k))
    /\ (\A i, j \in 1..Len(rows) : RowKey(rows[i]) = RowKey(rows[j]) => i = j)
         => Cardinality(DOMAIN features.own) = Len(rows)
C7_Witness ==
  /\ pc = "done" /\ Len(rows) >= 2
  /\ rows[1] = <<"A", <<"1">>>> /\ rows[2] = <<"A", <<"5", "k">>>>
  /\ features.own["A"] = Num(5)

\* ----------------------------------------------------- claims: SpecAssign
Returned == pc = "done" /\ ~threw /\ isFeatureCollection(argGeo)
HasKey(f) == LookupKey(f).t = "string"
Matched(f) == HasKey(f) /\ LookupKey(f).s \in DOMAIN features.own
OwnProperties(f) == IF f.propsNull THEN {} ELSE DOMAIN f.properties
Has(f, k, v) == k \in OwnProperties(f) /\ f.properties[k] = v

\* C1 as stated: every feature whose lookup key is a key of the table has
\* value = the table's value, color = the color mapping of that value, and
\* every property it had before, with its previous value.
C1_AsStated ==
  Returned =>
    \A i \in 1..Len(argGeo.features) :
      LET f0 == argGeo.features[i]
          f1 == geo.features[i]
          v == features.own[LookupKey(f0).s]
      IN Matched(f0) =>
           /\ Has(f1, "value", v)
           /\ Has(f1, "color", ColorOf(features.own, colorScale, invertScale, v))
           /\ \A k \in OwnProperties(f0) : Has(f1, k, f0.properties[k])
\* C1 (amended): every feature whose lookup key is a key of the table has
\* value = the table's value (NaN included), color = the color mapping of that
\* value, and every property other than value and color that it had before,
\* with its previous value.
C1_Enriched ==
  Returned =>
    \A i \in 1..Len(argGeo.features) :
      LET f0 == argGeo.features[i]
          f1 == geo.features[i]
          v == features.own[LookupKey(f0).s]
      IN Matched(f0) =>
           /\ Has(f1, "value", v)
           /\ Has(f1, "color", ColorOf(features.own, colorScale, invertScale, v))
           /\ \A k \in OwnProperties(f0) \ {"value", "color"} :
                Has(f1, k, f0.properties[k])
C1_Witness ==
  /\ Returned
  /\ \E i \in 1..Len(argGeo.features) :
       /\ Has(argGeo.features[i], "name", Str("A"))
       /\ Has(argGeo.features[i], "value", Str("old"))
       /\ "A" \in DOMAIN features.own /\ features.own["A"] = NaN
       /\ Has(geo.features[i], "value", NaN)
       /\ Has(geo.features[i], "name", Str("A"))

\* C2: every feature whose lookup key has no entry in the table is exactly as
\* it was before (no value, no color, no property changed).
C2_Untouched ==
  Returned =>
    \A i \in 1..Len(argGeo.features) :
      ~Matched(argGeo.features[i]) => geo.features[i] = argGeo.features[i]

\* C3: a feature with neither a name nor a code is never matched, whatever
\* keys the table has: it is given no value and no color.
C3_NoKeyNoMatch ==
  Returned =>
    \A i \in 1..Len(argGeo.features) :
      ~HasKey(argGeo.features[i]) =>
        {"value", "color"} \cap OwnProperties(geo.features[i]) = {}

C6_Domain ==
  (pc = "done" /\ \E k \in DOMAIN features.own : features.own[k] # NaN) =>
    LET vals == {features.own[k] : k \in DOMAIN features.own} \ {NaN}
        min == DomainMin(features.own)
        max == DomainMax(features.own)
    IN /\ min \in vals /\ \A v \in vals : min.n <= v.n
       /\ max \in vals /\ \A v \in vals : v.n <= max.n
C6_Witness ==
  /\ pc = "done"
  /\ {features.own[k] : k \in DOMAIN features.own} = {Num(1), NaN, Num(9)}
  /\ DomainMin(features.own) = Num(1) /\ DomainMax(features.own) = Num(9)

AllNaN ==
  /\ DOMAIN features.own # {}
  /\ \A k \in DOMAIN features.own : features.own[k] = NaN
\* C10 as stated: with a table that is not empty and holds no value other
\* than NaN, min and max are both NaN (or undefined).
C10_AsStated ==
  (pc = "done" /\ AllNaN) =>
    /\ IsNaN(DomainMin(features.own))
    /\ IsNaN(DomainMax(features.own))
\* C10 (amended): with a table that is not empty and holds no value other
\* than NaN, min is +Infinity and max is -Infinity, the call does not throw
\* (on a document whose features are all objects) and every matched feature
\* is given value = NaN.
C10_Degenerate ==
  (pc = "done" /\ AllNaN) =>
    /\ DomainMin(features.own) = PosInf
    /\ DomainMax(features.own) = NegInf
    /\ threw = (\E i \in 1..Len(argGeo.features) : argGeo.features[i].isNull)
    /\ Returned =>
         \A i \in 1..Len(argGeo.features) :
           Matched(argGeo.features[i]) => Has(geo.features[i], "value", NaN)
C10_Witness ==
  /\ Returned /\ AllNaN
  /\ \E i \in 1..Len(geo.features) :
       Matched(argGeo.features[i]) /\ Has(geo.features[i], "value", NaN)

\* ------------------------------------------------------------ claims: Spec
Malformed(text) == text # <<>> /\ ~JSONParse(text).ok
\* enrichment of the current text with the current table throws part-way
EnrichmentThrows ==
  /\ JSONParse(geojsonString).ok /\ ~features.isNull
  /\ assignFeatures(JSONParse(geojsonString).value, features.own, colorScale,
                    invertScale).threw
\* the text of a document all of whose features are objects
ValidText(text) ==
  /\ JSONParse(text).ok
  /\ \A i \in 1..Len(JSONParse(text).value.features) :
       ~JSONParse(text).value.features[i].isNull

\* C4: whenever the boundary text is malformed or enrichment throws part-way
\* the output is null, no exception leaves the recomputation and no partly
\* enriched document is emitted; whenever the boundary text is valid (again)
\* the output is a document.
C4_FailureIsNull ==
  /\ (Malformed(geojsonString) \/ EnrichmentThrows) => geojson.isNull
  /\ ~uncaught
  /\ ValidText(geojsonString) => ~geojson.isNull
\* enrichment threw after it had written to the first feature
C4_WitnessThrow ==
  /\ EnrichmentThrows /\ geojson.isNull
  /\ Matched(JSONParse(geojsonString).value.features[1])
\* the recomputation before this one ended by an exception of the enrichment,
\* and the edit to a valid text produced a document again
C4_Witness ==
  prevOutcome = "threw" /\ ValidText(geojsonString) /\ ~geojson.isNull

\* the document computed afresh from the current inputs
Recomputed ==
  LET p == JSONParse(geojsonString)
      table == BuildFeatures(featureData)
  IN IF ~p.ok THEN NoGeo
     ELSE IF table.isNull THEN Geo(p.value)
     ELSE LET r == assignFeatures(p.value, table.own, colorScale, invertScale)
          IN IF r.threw THEN NoGeo ELSE Geo(r.geo)
\* C8: after any sequence of edits the document handed to the map is the one
\* obtained by parsing the current boundary text afresh and enriching it with
\* the table of the current tabular text under the current scale settings;
\* with the tabular text cleared it is the document as parsed.
C8_FreshFromInputs ==
  /\ geojson = Recomputed
  /\ (featureData = <<>> /\ JSONParse(geojsonString).ok)
       => geojson = Geo(JSONParse(geojsonString).value)
C8_Witness ==
  /\ prevOutcome = "enriched" /\ featureData = <<>>
  /\ ~geojson.isNull /\ geojson.doc = JSONParse(geojsonString).value

\* C9: every recomputation that produces a document yields a marker strictly
\* greater than the marker of every earlier recomputation.
C9_StrictlyIncreasing ==
  ~geojson.isNull => gen > prevGen

====
